---- MODULE Spec2Model ----
(***************************************************************************)
(* A model of prometheus_nut_exporter.py: the METRICS catalog, the         *)
(* NUTCollector.collect() generator and the __main__ bootstrap.            *)
(*                                                                         *)
(* Python values are modelled as tuples so that any two of them can be     *)
(* compared: a str is the sequence of its characters, None is <<"None">>   *)
(* and a number n is <<"int", n>> (1 and 1.0 are the same number).         *)
(* Help texts, label names and environment variable names are never taken  *)
(* apart by the program and are kept as TLA+ strings.                      *)
(***************************************************************************)
EXTENDS Integers, Sequences, FiniteSets, TLC

VARIABLES
  environ,   \* os.environ: a function from the names that are set to their str values
  main,      \* the __main__ block: its position, its locals, the exception that ended it
  http,      \* the port start_http_server() listens on, None before
  registry,  \* REGISTRY: the sequence of registered collectors (their _host, _ups_name)
  calls      \* the collect() generators: per call its position, locals and yielded records

vars == <<environ, main, http, registry, calls>>

---------------------------------------------------------------------------
(* Python values and the str / builtin operations the program uses *)

None == <<"None">>

PyInt(n) == <<"int", n>>

IsInt(v) == Len(v) = 2 /\ v[1] = "int"

\* bool(v) for None, str and int
Truthy(v) == v # None /\ v # <<>> /\ v # PyInt(0)

\* a or b
PyOr(a, b) == IF Truthy(a) THEN a ELSE b

Dot == <<".">>

Underscore == <<"_">>

Quote == <<"'">>

\* the characters str.strip() removes when called without argument (those a TLA+
\* string can spell: space, tab, newline, form feed, carriage return)
Whitespace == {" ", "\t", "\n", "\f", "\r"}

\* s.replace(old, new) for one-character old and new
Replace(s, old, new) == [i \in 1..Len(s) |-> IF <<s[i]>> = old THEN new[1] ELSE s[i]]

RECURSIVE Join(_, _)
\* sep.join(parts)
Join(sep, parts) ==
  IF parts = <<>> THEN <<>>
  ELSE IF Len(parts) = 1 THEN parts[1]
  ELSE parts[1] \o sep \o Join(sep, Tail(parts))

RECURSIVE LStrip(_)
LStrip(s) == IF s # <<>> /\ Head(s) \in Whitespace THEN LStrip(Tail(s)) ELSE s

RECURSIVE RStrip(_)
RStrip(s) ==
  IF s # <<>> /\ s[Len(s)] \in Whitespace THEN RStrip(SubSeq(s, 1, Len(s) - 1)) ELSE s

\* s.strip()
Strip(s) == RStrip(LStrip(s))

Digits == <<"0", "1", "2", "3", "4", "5", "6", "7", "8", "9">>

DigitValue(ch) == (CHOOSE d \in 1..10 : Digits[d] = ch) - 1

IsDigit(ch) == \E d \in 1..10 : Digits[d] = ch

RECURSIVE ParseDigits(_)
ParseDigits(s) ==
  IF s = <<>> THEN 0 ELSE 10 * ParseDigits(SubSeq(s, 1, Len(s) - 1)) + DigitValue(s[Len(s)])

ValueError == <<"ValueError">>

\* int(v): an int is returned as it is; a str is stripped, may carry a sign and
\* must then be decimal digits, anything else raises ValueError
PyIntOf(v) ==
  IF IsInt(v) THEN v
  ELSE LET t == Strip(v)
           signed == t # <<>> /\ Head(t) \in {"+", "-"}
           body == IF signed THEN Tail(t) ELSE t
       IN IF body # <<>> /\ \A i \in 1..Len(body) : IsDigit(body[i])
          THEN PyInt(IF signed /\ Head(t) = "-" THEN 0 - ParseDigits(body) ELSE ParseDigits(body))
          ELSE ValueError

---------------------------------------------------------------------------
(* dict: a sequence of <<key, value>> pairs with distinct keys, in insertion order *)

Keys(d) == {d[i][1] : i \in 1..Len(d)}

Has(d, k) == k \in Keys(d)

Get(d, k) == d[CHOOSE i \in 1..Len(d) : d[i][1] = k][2]

\* d[k] where the program has established that k is in d; None stands for the raise
Subscript(d, k) == IF Has(d, k) THEN Get(d, k) ELSE None

---------------------------------------------------------------------------
(* METRICS, lines 8-142 *)

\* the words the keys, units and metric names of the source are made of
Word ==
  [ device |-> <<"d", "e", "v", "i", "c", "e">>,
    uptime |-> <<"u", "p", "t", "i", "m", "e">>,
    seconds |-> <<"s", "e", "c", "o", "n", "d", "s">>,
    ups |-> <<"u", "p", "s">>,
    temperature |-> <<"t", "e", "m", "p", "e", "r", "a", "t", "u", "r", "e">>,
    celsius |-> <<"c", "e", "l", "s", "i", "u", "s">>,
    load |-> <<"l", "o", "a", "d">>,
    percent |-> <<"p", "e", "r", "c", "e", "n", "t">>,
    high |-> <<"h", "i", "g", "h">>,
    efficiency |-> <<"e", "f", "f", "i", "c", "i", "e", "n", "c", "y">>,
    power |-> <<"p", "o", "w", "e", "r">>,
    voltamperes |-> <<"v", "o", "l", "t", "a", "m", "p", "e", "r", "e", "s">>,
    nominal |-> <<"n", "o", "m", "i", "n", "a", "l">>,
    realpower |-> <<"r", "e", "a", "l", "p", "o", "w", "e", "r">>,
    watts |-> <<"w", "a", "t", "t", "s">>,
    input |-> <<"i", "n", "p", "u", "t">>,
    voltage |-> <<"v", "o", "l", "t", "a", "g", "e">>,
    volts |-> <<"v", "o", "l", "t", "s">>,
    maximum |-> <<"m", "a", "x", "i", "m", "u", "m">>,
    minimum |-> <<"m", "i", "n", "i", "m", "u", "m">>,
    low |-> <<"l", "o", "w">>,
    warning |-> <<"w", "a", "r", "n", "i", "n", "g">>,
    critical |-> <<"c", "r", "i", "t", "i", "c", "a", "l">>,
    transfer |-> <<"t", "r", "a", "n", "s", "f", "e", "r">>,
    delay |-> <<"d", "e", "l", "a", "y">>,
    min |-> <<"m", "i", "n">>,
    max |-> <<"m", "a", "x">>,
    current |-> <<"c", "u", "r", "r", "e", "n", "t">>,
    amperes |-> <<"a", "m", "p", "e", "r", "e", "s">>,
    frequency |-> <<"f", "r", "e", "q", "u", "e", "n", "c", "y">>,
    hertz |-> <<"h", "e", "r", "t", "z">>,
    boost |-> <<"b", "o", "o", "s", "t">>,
    trim |-> <<"t", "r", "i", "m">>,
    ertz |-> <<"e", "r", "t", "z">>,
    output |-> <<"o", "u", "t", "p", "u", "t">>,
    battery |-> <<"b", "a", "t", "t", "e", "r", "y">>,
    charge |-> <<"c", "h", "a", "r", "g", "e">>,
    restart |-> <<"r", "e", "s", "t", "a", "r", "t">>,
    capacity |-> <<"c", "a", "p", "a", "c", "i", "t", "y">>,
    amperehours |-> <<"a", "m", "p", "e", "r", "e", "h", "o", "u", "r", "s">>,
    total |-> <<"t", "o", "t", "a", "l">>,
    runtime |-> <<"r", "u", "n", "t", "i", "m", "e">>,
    packs |-> <<"p", "a", "c", "k", "s">>,
    bad |-> <<"b", "a", "d">>,
    nut |-> <<"n", "u", "t">>,
    info |-> <<"i", "n", "f", "o">>,
    status |-> <<"s", "t", "a", "t", "u", "s">>,
    beeper |-> <<"b", "e", "e", "p", "e", "r">>,
    charger |-> <<"c", "h", "a", "r", "g", "e", "r">>,
    mfr |-> <<"m", "f", "r">>,
    model |-> <<"m", "o", "d", "e", "l">>,
    serial |-> <<"s", "e", "r", "i", "a", "l">> ]

Entry(key, unit, help) == [key |-> key, unit |-> unit, help |-> help]

\* the dict display of lines 8-142, entry by entry as written
METRICS_LITERAL ==
  << Entry(Word.device \o Dot \o Word.uptime, Quote \o Word.seconds \o Quote,
          "Device uptime"),
     Entry(Word.ups \o Dot \o Word.temperature, Word.celsius,
          "UPS temperature"),
     Entry(Word.ups \o Dot \o Word.load, Word.percent,
          "Load on UPS"),
     Entry(Word.ups \o Dot \o Word.load \o Dot \o Word.high, Word.percent,
          "Load when UPS switches to overload condition"),
     Entry(Word.ups \o Dot \o Word.efficiency, Word.percent,
          "Efficiency of the UPS (ratio of the output current on the input current)"),
     Entry(Word.ups \o Dot \o Word.power, Word.voltamperes,
          "Current value of apparent power"),
     Entry(Word.ups \o Dot \o Word.power \o Dot \o Word.nominal, Word.voltamperes,
          "Nominal value of apparent power"),
     Entry(Word.ups \o Dot \o Word.realpower, Word.watts,
          "Current value of real power"),
     Entry(Word.ups \o Dot \o Word.realpower \o Dot \o Word.nominal, Word.watts,
          "Nominal value of real power"),
     Entry(Word.input \o Dot \o Word.voltage, Word.volts,
          "Input voltage"),
     Entry(Word.input \o Dot \o Word.voltage \o Dot \o Word.maximum, Word.volts,
          "Maximum incoming voltage seen"),
     Entry(Word.input \o Dot \o Word.voltage \o Dot \o Word.minimum, Word.volts,
          "Minimum incoming voltage seen"),
     Entry(Word.input \o Dot \o Word.voltage \o Dot \o Word.low \o Dot \o Word.warning, Word.volts,
          "Low warning threshold"),
     Entry(Word.input \o Dot \o Word.voltage \o Dot \o Word.low \o Dot \o Word.critical, Word.volts,
          "Low critical threshold"),
     Entry(Word.input \o Dot \o Word.voltage \o Dot \o Word.high \o Dot \o Word.warning, Word.volts,
          "High warning threshold"),
     Entry(Word.input \o Dot \o Word.voltage \o Dot \o Word.high \o Dot \o Word.critical, Word.volts,
          "High critical threshold"),
     Entry(Word.input \o Dot \o Word.voltage \o Dot \o Word.nominal, Word.volts,
          "Nominal input voltage"),
     Entry(Word.input \o Dot \o Word.transfer \o Dot \o Word.delay, Word.seconds,
          "Delay before transfer to mains"),
     Entry(Word.input \o Dot \o Word.transfer \o Dot \o Word.low, Word.volts,
          "Low voltage transfer point"),
     Entry(Word.input \o Dot \o Word.transfer \o Dot \o Word.high, Word.volts,
          "High voltage transfer point"),
     Entry(Word.input \o Dot \o Word.transfer \o Dot \o Word.low \o Dot \o Word.min, Word.volts,
          "smallest settable low voltage transfer point"),
     Entry(Word.input \o Dot \o Word.transfer \o Dot \o Word.low \o Dot \o Word.max, Word.volts,
          "greatest settable low voltage transfer point"),
     Entry(Word.input \o Dot \o Word.transfer \o Dot \o Word.high \o Dot \o Word.min, Word.volts,
          "smallest settable high voltage transfer point"),
     Entry(Word.input \o Dot \o Word.transfer \o Dot \o Word.high \o Dot \o Word.max, Word.volts,
          "greatest settable high voltage transfer point"),
     Entry(Word.input \o Dot \o Word.current, Word.amperes,
          "Input current"),
     Entry(Word.input \o Dot \o Word.current \o Dot \o Word.nominal, Word.amperes,
          "Nominal input current"),
     Entry(Word.input \o Dot \o Word.current \o Dot \o Word.low \o Dot \o Word.warning, Word.amperes,
          "Low warning threshold"),
     Entry(Word.input \o Dot \o Word.current \o Dot \o Word.low \o Dot \o Word.critical, Word.amperes,
          "Low critical threshold"),
     Entry(Word.input \o Dot \o Word.current \o Dot \o Word.high \o Dot \o Word.warning, Word.amperes,
          "High warning threshold"),
     Entry(Word.input \o Dot \o Word.current \o Dot \o Word.high \o Dot \o Word.critical, Word.amperes,
          "High critical threshold"),
     Entry(Word.input \o Dot \o Word.frequency, Word.hertz,
          "Input line frequency"),
     Entry(Word.input \o Dot \o Word.frequency \o Dot \o Word.nominal, Word.hertz,
          "Nominal input line frequency"),
     Entry(Word.input \o Dot \o Word.frequency \o Dot \o Word.low, Word.hertz,
          "Input line frequency low"),
     Entry(Word.input \o Dot \o Word.frequency \o Dot \o Word.high, Word.hertz,
          "Input line frequency high"),
     Entry(Word.input \o Dot \o Word.transfer \o Dot \o Word.boost \o Dot \o Word.low, Word.hertz,
          "Low voltage boosting transfer point"),
     Entry(Word.input \o Dot \o Word.transfer \o Dot \o Word.boost \o Dot \o Word.high, Word.hertz,
          "High voltage boosting transfer point"),
     Entry(Word.input \o Dot \o Word.transfer \o Dot \o Word.trim \o Dot \o Word.low, Word.ertz,
          "Low voltage trimming transfer point"),
     Entry(Word.input \o Dot \o Word.transfer \o Dot \o Word.trim \o Dot \o Word.high, Word.hertz,
          "High voltage trimming transfer point"),
     Entry(Word.input \o Dot \o Word.load, Word.percent,
          "Load on (ePDU) input"),
     Entry(Word.input \o Dot \o Word.realpower, Word.watts,
          "Current sum value of all (ePDU) phases real power"),
     Entry(Word.input \o Dot \o Word.power, Word.voltamperes,
          "Current sum value of all (ePDU) phases apparent power"),
     Entry(Word.output \o Dot \o Word.voltage, Word.volts,
          "Output voltage"),
     Entry(Word.output \o Dot \o Word.voltage \o Dot \o Word.nominal, Word.volts,
          "Nominal output voltage"),
     Entry(Word.output \o Dot \o Word.frequency, Word.hertz,
          "Output frequency"),
     Entry(Word.output \o Dot \o Word.frequency \o Dot \o Word.nominal, Word.hertz,
          "Nominal output frequency"),
     Entry(Word.output \o Dot \o Word.current, Word.amperes,
          "Output current"),
     Entry(Word.output \o Dot \o Word.current \o Dot \o Word.nominal, Word.amperes,
          "Nominal output current"),
     Entry(Word.battery \o Dot \o Word.charge, Word.percent,
          "Battery charge"),
     Entry(Word.battery \o Dot \o Word.charge \o Dot \o Word.low, Word.percent,
          "Remaining battery level when UPS switches to LB"),
     Entry(Word.battery \o Dot \o Word.charge \o Dot \o Word.restart, Word.percent,
          "Minimum battery level for UPS restart after power-off"),
     Entry(Word.battery \o Dot \o Word.charge \o Dot \o Word.warning, Word.percent,
          "Battery level when UPS switches to \"Warning\" state"),
     Entry(Word.battery \o Dot \o Word.voltage, Word.volts,
          "Battery voltage"),
     Entry(Word.battery \o Dot \o Word.voltage \o Dot \o Word.nominal, Word.volts,
          "Nominal battery voltage"),
     Entry(Word.battery \o Dot \o Word.voltage \o Dot \o Word.low, Word.volts,
          "Minimum battery voltage, that triggers FSD status"),
     Entry(Word.battery \o Dot \o Word.voltage \o Dot \o Word.high, Word.volts,
          "Maximum battery voltage (i.e. battery.charge = 100)"),
     Entry(Word.battery \o Dot \o Word.capacity, Word.amperehours,
          "Battery capacity"),
     Entry(Word.battery \o Dot \o Word.current, Word.amperes,
          "Battery current"),
     Entry(Word.battery \o Dot \o Word.current \o Dot \o Word.total, Word.amperes,
          "Total battery current"),
     Entry(Word.battery \o Dot \o Word.temperature, Word.celsius,
          "Battery temperature"),
     Entry(Word.battery \o Dot \o Word.runtime, Word.seconds,
          "Battery runtime"),
     Entry(Word.battery \o Dot \o Word.runtime \o Dot \o Word.low, Word.seconds,
          "Remaining battery runtime when UPS switches to LB"),
     Entry(Word.battery \o Dot \o Word.runtime \o Dot \o Word.restart, Word.seconds,
          "Minimum battery runtime for UPS restart after power-off"),
     Entry(Word.battery \o Dot \o Word.packs, None,
          "Number of battery packs"),
     Entry(Word.battery \o Dot \o Word.packs \o Dot \o Word.bad, None,
          "Number of bad battery packs") >>

\* METRICS as the dict the display evaluates to: a repeated key keeps its last value
METRICS ==
  [k \in {METRICS_LITERAL[i].key : i \in 1..Len(METRICS_LITERAL)} |->
     LET last == CHOOSE i \in 1..Len(METRICS_LITERAL) :
                   /\ METRICS_LITERAL[i].key = k
                   /\ \A j \in (i + 1)..Len(METRICS_LITERAL) : METRICS_LITERAL[j].key # k
     IN [unit |-> METRICS_LITERAL[last].unit, help |-> METRICS_LITERAL[last].help]]

---------------------------------------------------------------------------
(* prometheus_client metric families, as collect() builds them *)

\* dict(zip(labelnames, labels)) as the sequence of <<name, value>> pairs
ZipLabels(labelnames, labels) ==
  [i \in 1..(IF Len(labelnames) < Len(labels) THEN Len(labelnames) ELSE Len(labels)) |->
     <<labelnames[i], labels[i]>>]

Sample(name, labels, value) == [name |-> name, labels |-> labels, value |-> value]

\* family.add_metric(labels, value)
AddMetric(family, labels, value) ==
  [family EXCEPT !.samples =
     Append(@, Sample(family.name, ZipLabels(family.labelnames, labels), value))]

\* GaugeMetricFamily(name, documentation, value=value, labels=labels)
GaugeMetricFamily(name, documentation, value, labels) ==
  LET family == [name |-> name, documentation |-> documentation, type |-> "gauge",
                 labelnames |-> IF labels = None THEN <<>> ELSE labels,
                 samples |-> <<>>]
  IN IF value # None THEN AddMetric(family, <<>>, value) ELSE family

\* the snapshot keys collect() reads by name
DeviceMfr == Word.device \o Dot \o Word.mfr

DeviceModel == Word.device \o Dot \o Word.model

DeviceSerial == Word.device \o Dot \o Word.serial

UpsStatus == Word.ups \o Dot \o Word.status

UpsBeeperStatus == Word.ups \o Dot \o Word.beeper \o Dot \o Word.status

BatteryChargerStatus == Word.battery \o Dot \o Word.charger \o Dot \o Word.status

\* the names of the four dedicated families
NutDeviceInfo == Word.nut \o Underscore \o Word.device \o Underscore \o Word.info

NutUpsStatus == Word.nut \o Underscore \o Word.ups \o Underscore \o Word.status

NutUpsBeeperStatus ==
  Word.nut \o Underscore \o Word.ups \o Underscore \o Word.beeper \o Underscore \o Word.status

NutBatteryChargerStatus ==
  Word.nut \o Underscore \o Word.battery \o Underscore \o Word.charger
    \o Underscore \o Word.status

\* Faulty variant of SubscriptedKeys (sensitivity of C2): the status is read with a
\* default instead of a subscript, so that its absence raises nothing.
SubscriptedKeysLenient == <<DeviceMfr, DeviceModel, DeviceSerial>>

\* lines 162-164 and 172: the subscripts client_vars[...] in the order they are evaluated
SubscriptedKeys == <<DeviceMfr, DeviceModel, DeviceSerial, UpsStatus>>

\* the first subscripted key the snapshot lacks (the KeyError), None when it has them all
FirstMissingKey(client_vars) ==
  LET missing == {i \in 1..Len(SubscriptedKeys) : ~Has(client_vars, SubscriptedKeys[i])}
  IN IF missing = {} THEN None
     ELSE SubscriptedKeys[CHOOSE i \in missing : \A j \in missing : i <= j]

\* Faulty variant of InfoFamily (sensitivity of C5): only the end of the serial is
\* stripped, as the comment of line 160 would suggest.
InfoFamilyRStrip(client_vars) ==
  AddMetric(
    GaugeMetricFamily(NutDeviceInfo, "information about the UPS", None,
                      <<"manufacturer", "model", "serial">>),
    <<Subscript(client_vars, DeviceMfr), Subscript(client_vars, DeviceModel),
      RStrip(Subscript(client_vars, DeviceSerial))>>,
    PyInt(1))

\* lines 154-167
InfoFamily(client_vars) ==
  AddMetric(
    GaugeMetricFamily(NutDeviceInfo, "information about the UPS", None,
                      <<"manufacturer", "model", "serial">>),
    <<Subscript(client_vars, DeviceMfr), Subscript(client_vars, DeviceModel),
      Strip(Subscript(client_vars, DeviceSerial))>>,
    PyInt(1))

\* lines 169-172
UpsStatusFamily(client_vars) ==
  AddMetric(GaugeMetricFamily(NutUpsStatus, "UPS status", None, <<"status">>),
            <<Subscript(client_vars, UpsStatus)>>, PyInt(1))

\* lines 175-178
UpsBeeperStatusFamily(client_vars) ==
  AddMetric(GaugeMetricFamily(NutUpsBeeperStatus, "UPS beeper status", None, <<"status">>),
            <<Subscript(client_vars, UpsBeeperStatus)>>, PyInt(1))

\* Faulty variant of BatteryChargerStatusFamily (sensitivity of C10): the family is
\* pasted from the beeper's and keeps its name.
BatteryChargerStatusFamilyCopied(client_vars) ==
  AddMetric(GaugeMetricFamily(NutUpsBeeperStatus, "Status of the battery charger", None,
                              <<"status">>),
            <<Subscript(client_vars, BatteryChargerStatus)>>, PyInt(1))

\* lines 182-189
BatteryChargerStatusFamily(client_vars) ==
  AddMetric(GaugeMetricFamily(NutBatteryChargerStatus, "Status of the battery charger", None,
                              <<"status">>),
            <<Subscript(client_vars, BatteryChargerStatus)>>, PyInt(1))

\* Faulty variant of FormattedName (sensitivity of C3): the unit is never appended.
FormattedNameNoUnit(var) == Join(Underscore, <<Word.nut, Replace(var, Dot, Underscore)>>)

\* lines 194-200
FormattedName(var) ==
  LET formatted_name == Replace(var, Dot, Underscore)
  IN IF Truthy(METRICS[var].unit)
     THEN Join(Underscore, <<Word.nut, formatted_name, METRICS[var].unit>>)
     ELSE Join(Underscore, <<Word.nut, formatted_name>>)

\* lines 201-203
CatalogFamily(var, client_vars) ==
  GaugeMetricFamily(FormattedName(var), METRICS[var].help, Subscript(client_vars, var), None)

---------------------------------------------------------------------------
(* __main__, lines 208-224 *)

REQUIRED_VARS == <<"HOST", "UPS">>

DefaultNutPort == 3493

DefaultExporterPort == 9293

\* os.environ.get(name)
EnvironGet(name) == IF name \in DOMAIN environ THEN environ[name] ELSE None

BootMain == [pc |-> "boot", host |-> None, nut_port |-> None, ups |-> None,
             exporter_port |-> None, exc |-> None]

\* NUTCollector(host=host, ups_name=ups), lines 146-148
NUTCollector(host, ups_name) == [_host |-> host, _ups_name |-> ups_name]

\* The whole block up to the sleep loop. A missing required variable raises
\* EnvironmentError before anything else; int(exporter_port) may raise ValueError
\* before the server is started and the collector registered.
Main ==
  /\ main.pc = "boot"
  /\ LET unset == {i \in 1..Len(REQUIRED_VARS) : REQUIRED_VARS[i] \notin DOMAIN environ}
         host == EnvironGet("HOST")
         nut_port == PyOr(EnvironGet("NUT_PORT"), PyInt(DefaultNutPort))
         ups == EnvironGet("UPS")
         exporter_port == PyOr(EnvironGet("EXPORTER_PORT"), PyInt(DefaultExporterPort))
         locals == [main EXCEPT !.host = host, !.nut_port = nut_port, !.ups = ups,
                                !.exporter_port = exporter_port]
     IN IF unset # {}
        THEN /\ main' = [main EXCEPT !.pc = "aborted",
                           !.exc = <<"EnvironmentError",
                                     REQUIRED_VARS[CHOOSE i \in unset : \A j \in unset : i <= j]>>]
             /\ UNCHANGED <<http, registry>>
        ELSE IF PyIntOf(exporter_port) = ValueError
        THEN /\ main' = [locals EXCEPT !.pc = "aborted", !.exc = ValueError]
             /\ UNCHANGED <<http, registry>>
        ELSE /\ main' = [locals EXCEPT !.pc = "serving"]
             /\ http' = PyIntOf(exporter_port)
             /\ registry' = Append(registry, NUTCollector(host, ups))
  /\ UNCHANGED <<environ, calls>>

\* lines 223-224: the main thread sleeps for good, changing nothing
Sleep ==
  /\ main.pc = "serving"
  /\ UNCHANGED vars

---------------------------------------------------------------------------
(* NUTCollector.collect(), lines 150-205: one generator per call *)

\* the port PyNUTClient connects to when the caller passes none (line 151 passes none)
PyNUTClientPort == 3493

PyNUTError == <<"PyNUTError">>

\* a generator that does not exist (yet, or any more)
IdleCall ==
  [pc |-> "idle", self |-> None, client_vars |-> None, info |-> None, ups_status |-> None,
   i |-> 0, out |-> <<>>, exc |-> None, fetches |-> <<>>]

\* what one PyNUTClient(self._host) + list_vars(self._ups_name) contacts and gets
\* back: the snapshot reply, or the error (and then no snapshot)
FetchEvent(self, error, reply) ==
  [host |-> self._host, port |-> PyNUTClientPort, ups_name |-> self._ups_name,
   error |-> error, reply |-> reply]

\* yield family
Yield(call, family) == [call EXCEPT !.out = Append(@, family)]

\* an exception leaves the generator: nothing in collect() catches it
Raise(call, exc) == [call EXCEPT !.pc = "raised", !.exc = exc]

\* The scrape handler calls collect() on a registered collector: the generator object
\* is created, none of its code has run.
Scrape(c) ==
  /\ main.pc = "serving"
  /\ calls[c].pc = "idle"
  /\ \E r \in 1..Len(registry) :
       calls' = [calls EXCEPT ![c] = [IdleCall EXCEPT !.pc = "start", !.self = registry[r]]]
  /\ UNCHANGED <<environ, main, http, registry>>

\* Faulty variant of OnFetchError (sensitivity of C1): the error is caught and the
\* generator returns, having yielded nothing.
OnFetchErrorSwallowed(call) ==
  [call EXCEPT !.fetches = Append(@, FetchEvent(call.self, PyNUTError, <<>>)), !.pc = "done"]

\* lines 151-152 when the client cannot connect or list_vars fails
OnFetchError(call) ==
  Raise([call EXCEPT !.fetches = Append(@, FetchEvent(call.self, PyNUTError, <<>>))], PyNUTError)

FetchFails(c) ==
  /\ calls[c].pc = "start"
  /\ calls' = [calls EXCEPT ![c] = OnFetchError(calls[c])]
  /\ UNCHANGED <<environ, main, http, registry>>

\* Faulty variant of BindClientVars (sensitivity of C7): the snapshot is kept in a
\* place the generators share, and a generator that finds one there uses it.
BindClientVarsShared(c, reply) ==
  LET holders == {d \in DOMAIN calls \ {c} :
                    calls[d].pc \in {"info", "beeper", "charger", "loop", "status"}}
  IN [calls[c] EXCEPT
        !.client_vars = IF holders = {} THEN reply
                        ELSE calls[CHOOSE d \in holders : TRUE].client_vars,
        !.pc = "info",
        !.fetches = Append(@, FetchEvent(calls[c].self, None, reply))]

\* line 152: the reply becomes this generator's local client_vars
BindClientVars(c, reply) ==
  [calls[c] EXCEPT !.client_vars = reply, !.pc = "info",
                   !.fetches = Append(@, FetchEvent(calls[c].self, None, reply))]

\* lines 151-152 when the daemon answers, with any snapshot of the set replies
FetchReturns(c, replies) ==
  /\ calls[c].pc = "start"
  /\ \E reply \in replies : calls' = [calls EXCEPT ![c] = BindClientVars(c, reply)]
  /\ UNCHANGED <<environ, main, http, registry>>

\* lines 154-172: both families are built, nothing is yielded yet; a key the snapshot
\* lacks raises KeyError here
BuildInfo(c) ==
  /\ calls[c].pc = "info"
  /\ LET call == calls[c]
         missing == FirstMissingKey(call.client_vars)
     IN calls' = [calls EXCEPT ![c] =
          IF missing # None
          THEN Raise(call, <<"KeyError", missing>>)
          ELSE [call EXCEPT !.info = InfoFamily(call.client_vars),
                            !.ups_status = UpsStatusFamily(call.client_vars),
                            !.pc = "beeper"]]
  /\ UNCHANGED <<environ, main, http, registry>>

\* line 174
HasBeeper(client_vars) == Has(client_vars, UpsBeeperStatus)

\* lines 174-179
Beeper(c) ==
  /\ calls[c].pc = "beeper"
  /\ LET call == [calls[c] EXCEPT !.pc = "charger"]
     IN calls' = [calls EXCEPT ![c] =
          IF HasBeeper(call.client_vars)
          THEN Yield(call, UpsBeeperStatusFamily(call.client_vars))
          ELSE call]
  /\ UNCHANGED <<environ, main, http, registry>>

\* Faulty variant of HasCharger (sensitivity of C4): the charger block is nested in
\* the beeper block.
HasChargerNested(client_vars) ==
  Has(client_vars, UpsBeeperStatus) /\ Has(client_vars, BatteryChargerStatus)

\* line 181
HasCharger(client_vars) == Has(client_vars, BatteryChargerStatus)

\* lines 181-190
Charger(c) ==
  /\ calls[c].pc = "charger"
  /\ LET call == [calls[c] EXCEPT !.pc = "loop", !.i = 1]
     IN calls' = [calls EXCEPT ![c] =
          IF HasCharger(call.client_vars)
          THEN Yield(call, BatteryChargerStatusFamily(call.client_vars))
          ELSE call]
  /\ UNCHANGED <<environ, main, http, registry>>

\* lines 192-203: one iteration of "for var in client_vars"
Loop(c) ==
  /\ calls[c].pc = "loop"
  /\ calls[c].i <= Len(calls[c].client_vars)
  /\ LET var == calls[c].client_vars[calls[c].i][1]
         call == [calls[c] EXCEPT !.i = @ + 1]
     IN calls' = [calls EXCEPT ![c] =
          IF var \in DOMAIN METRICS
          THEN Yield(call, CatalogFamily(var, call.client_vars))
          ELSE call]
  /\ UNCHANGED <<environ, main, http, registry>>

\* line 204, reached when the loop is exhausted
YieldInfo(c) ==
  /\ calls[c].pc = "loop"
  /\ calls[c].i > Len(calls[c].client_vars)
  /\ calls' = [calls EXCEPT ![c] = Yield([calls[c] EXCEPT !.pc = "status"], calls[c].info)]
  /\ UNCHANGED <<environ, main, http, registry>>

\* line 205, after which the generator is exhausted
YieldStatus(c) ==
  /\ calls[c].pc = "status"
  /\ calls' = [calls EXCEPT ![c] = Yield([calls[c] EXCEPT !.pc = "done"], calls[c].ups_status)]
  /\ UNCHANGED <<environ, main, http, registry>>

\* the caller is through with a generator that returned or raised
Close(c) ==
  /\ calls[c].pc \in {"done", "raised"}
  /\ calls' = [calls EXCEPT ![c] = IdleCall]
  /\ UNCHANGED <<environ, main, http, registry>>

---------------------------------------------------------------------------
(* The inputs: the environment the process starts in, the snapshots the daemon returns *)

\* at most this many keys other than the six dedicated ones in a snapshot of Snapshots
MaxExtraKeys == 3

\* at most this many catalog keys in a snapshot of CatalogSnapshots
MaxCatalogKeys == 2

\* the number of collect() generators that can be alive at once under SpecConcurrent
MaxCalls == 2

EnvNames == {"HOST", "UPS", "NUT_PORT", "EXPORTER_PORT"}

\* per variable the values tried, None for "not set"
EnvValues ==
  [HOST |-> {None, <<"n", "a", "s">>},
   UPS |-> {None, Word.ups},
   NUT_PORT |-> {None, <<"3", "4", "9", "4">>},
   EXPORTER_PORT |-> {None, <<"9", "1", "0", "0">>, <<"a", "b", "c">>}]

EnvOf(choice) == [n \in {m \in EnvNames : choice[m] # None} |-> choice[n]]

Environs ==
  {EnvOf(choice) : choice \in {ch \in [EnvNames -> UNION {EnvValues[n] : n \in EnvNames}] :
                                 \A n \in EnvNames : ch[n] \in EnvValues[n]}}

\* the one environment of the specifications that vary the snapshots or the calls
PlainEnviron == EnvOf([HOST |-> <<"n", "a", "s">>, UPS |-> Word.ups,
                       NUT_PORT |-> None, EXPORTER_PORT |-> None])

Field(key, values) == [key |-> key, values |-> values]

FooBar == <<"f", "o", "o", ".", "b", "a", "r">>

UpsLoad == Word.ups \o Dot \o Word.load

\* the six dedicated keys with the values tried for each
DedicatedFields ==
  << Field(DeviceMfr, {<<"A", "P", "C">>}),
     Field(DeviceModel, {<<"X">>}),
     Field(DeviceSerial, {<<" ", "A", "B", "1", "2", "3", " ">>,
                          <<"1", "2", "3", "4", "5", " ">>,
                          <<"\t", "A", "B", " ", "1", "\n">>}),
     Field(UpsStatus, {<<"O", "L">>}),
     Field(UpsBeeperStatus, {<<"e", "n", "a", "b", "l", "e", "d">>}),
     Field(BatteryChargerStatus, {<<"c", "h", "a", "r", "g", "i", "n", "g">>}) >>

\* catalog keys (one with a value that is no number) and a key the catalog lacks
ExtraFields ==
  << Field(UpsLoad, {<<"4", "2">>, <<"a", "b", "c">>}),
     Field(Word.battery \o Dot \o Word.packs, {<<"1">>}),
     Field(Word.device \o Dot \o Word.uptime, {<<"1", "0", "0">>}),
     Field(Word.battery \o Dot \o Word.charge, {<<"9", "0">>}),
     Field(FooBar, {<<"7">>}) >>

RECURSIVE Subdicts(_, _)
\* every dict made of at most n of the fields, in their order, each with one of its values
Subdicts(fields, n) ==
  IF fields = <<>> \/ n = 0 THEN {<<>>}
  ELSE Subdicts(Tail(fields), n)
         \cup {<<<<Head(fields).key, v>>>> \o d :
                 v \in Head(fields).values, d \in Subdicts(Tail(fields), n - 1)}

Reverse(s) == [i \in 1..Len(s) |-> s[Len(s) + 1 - i]]

\* Snapshots: any of the dedicated keys present or absent, up to MaxExtraKeys others,
\* listed by the daemon in this order or in the opposite one
Snapshots ==
  LET ds == {d \o x : d \in Subdicts(DedicatedFields, Len(DedicatedFields)),
                      x \in Subdicts(ExtraFields, MaxExtraKeys)}
  IN ds \cup {Reverse(d) : d \in ds}

\* a snapshot with the four keys collect() subscripts
ValidSnapshot ==
  << <<DeviceMfr, <<"A", "P", "C">>>>, <<DeviceModel, <<"X">>>>,
     <<DeviceSerial, <<"1", "2", "3", "4", "5", " ">>>>, <<UpsStatus, <<"O", "L">>>> >>

FullSnapshot ==
  ValidSnapshot \o << <<UpsBeeperStatus, <<"e", "n", "a", "b", "l", "e", "d">>>>,
                      <<BatteryChargerStatus, <<"c", "h", "a", "r", "g", "i", "n", "g">>>> >>

\* every catalog key, in the order of the display
CatalogFields ==
  [i \in 1..Len(METRICS_LITERAL) |-> Field(METRICS_LITERAL[i].key, {<<"1">>})]

\* CatalogSnapshots: all six dedicated keys and up to MaxCatalogKeys keys of the catalog
CatalogSnapshots == {FullSnapshot \o x : x \in Subdicts(CatalogFields, MaxCatalogKeys)}

\* ConcurrentSnapshots: a valid snapshot, one with a catalog key more, one without serial
ConcurrentSnapshots ==
  { ValidSnapshot,
    ValidSnapshot \o << <<UpsLoad, <<"4", "2">>>> >>,
    << <<UpsBeeperStatus, <<"o", "f", "f">>>> >> \o SubSeq(ValidSnapshot, 1, 2) }

---------------------------------------------------------------------------
(* The specifications *)

Boot(envs, ncalls) ==
  /\ environ \in envs
  /\ main = BootMain
  /\ http = None
  /\ registry = <<>>
  /\ calls = [c \in 1..ncalls |-> IdleCall]

\* Spec: any environment, one scrape at a time, any snapshot of Snapshots
Init == Boot(Environs, 1)

Next ==
  \/ Main
  \/ Sleep
  \/ \E c \in DOMAIN calls : Scrape(c)
  \/ \E c \in DOMAIN calls : FetchFails(c)
  \/ \E c \in DOMAIN calls : FetchReturns(c, Snapshots)
  \/ \E c \in DOMAIN calls : BuildInfo(c)
  \/ \E c \in DOMAIN calls : Beeper(c)
  \/ \E c \in DOMAIN calls : Charger(c)
  \/ \E c \in DOMAIN calls : Loop(c)
  \/ \E c \in DOMAIN calls : YieldInfo(c)
  \/ \E c \in DOMAIN calls : YieldStatus(c)
  \/ \E c \in DOMAIN calls : Close(c)

Spec == Init /\ [][Next]_vars

\* SpecCatalog: one scrape at a time over snapshots that range over the whole catalog
InitCatalog == Boot({PlainEnviron}, 1)

NextCatalog ==
  \/ Main
  \/ Sleep
  \/ \E c \in DOMAIN calls : Scrape(c)
  \/ \E c \in DOMAIN calls : FetchFails(c)
  \/ \E c \in DOMAIN calls : FetchReturns(c, CatalogSnapshots)
  \/ \E c \in DOMAIN calls : BuildInfo(c)
  \/ \E c \in DOMAIN calls : Beeper(c)
  \/ \E c \in DOMAIN calls : Charger(c)
  \/ \E c \in DOMAIN calls : Loop(c)
  \/ \E c \in DOMAIN calls : YieldInfo(c)
  \/ \E c \in DOMAIN calls : YieldStatus(c)
  \/ \E c \in DOMAIN calls : Close(c)

SpecCatalog == InitCatalog /\ [][NextCatalog]_vars

\* SpecConcurrent: up to MaxCalls scrapes served at once, their steps interleaved
InitConcurrent == Boot({PlainEnviron}, MaxCalls)

NextConcurrent ==
  \/ Main
  \/ Sleep
  \/ \E c \in DOMAIN calls : Scrape(c)
  \/ \E c \in DOMAIN calls : FetchFails(c)
  \/ \E c \in DOMAIN calls : FetchReturns(c, ConcurrentSnapshots)
  \/ \E c \in DOMAIN calls : BuildInfo(c)
  \/ \E c \in DOMAIN calls : Beeper(c)
  \/ \E c \in DOMAIN calls : Charger(c)
  \/ \E c \in DOMAIN calls : Loop(c)
  \/ \E c \in DOMAIN calls : YieldInfo(c)
  \/ \E c \in DOMAIN calls : YieldStatus(c)
  \/ \E c \in DOMAIN calls : Close(c)

SpecConcurrent == InitConcurrent /\ [][NextConcurrent]_vars

---------------------------------------------------------------------------
(* The properties *)

\* the generator of call c ran to its end without raising
Succeeded(c) == calls[c].pc = "done"

\* call c has made its fetch and the daemon answered with a snapshot
Fetched(c) == calls[c].fetches # <<>> /\ calls[c].fetches[1].error = None

\* the snapshot the daemon returned to call c
ReplyOf(c) == calls[c].fetches[1].reply

\* call c has made its fetch and it failed
FetchFailed(c) == calls[c].fetches # <<>> /\ calls[c].fetches[1].error # None

\* the positions of the yielded records named name
Named(out, name) == {i \in 1..Len(out) : out[i].name = name}

DedicatedNames == {NutDeviceInfo, NutUpsStatus, NutUpsBeeperStatus, NutBatteryChargerStatus}

\* C1: a call whose fetch failed has yielded no record and has ended by raising the
\* fetch error to its caller; it is never a generator that returned.
C1_FetchFailureFailsTheCall ==
  \A c \in DOMAIN calls :
    FetchFailed(c) =>
      /\ calls[c].out = <<>>
      /\ calls[c].pc = "raised"
      /\ calls[c].exc = PyNUTError

C1_Witness ==
  \E c \in DOMAIN calls : FetchFailed(c) /\ calls[c].pc = "raised"

\* C2: a call whose snapshot lacks device.mfr, device.model, device.serial or
\* ups.status never yields a record and never returns: it waits at the subscripts or
\* has raised KeyError, whatever else the snapshot holds.
C2_MissingKeyFailsTheCall ==
  \A c \in DOMAIN calls :
    (Fetched(c) /\ \E k \in {DeviceMfr, DeviceModel, DeviceSerial, UpsStatus} :
                     ~Has(ReplyOf(c), k)) =>
      /\ calls[c].out = <<>>
      /\ calls[c].pc \in {"info", "raised"}
      /\ calls[c].pc = "raised" => calls[c].exc[1] = "KeyError"

C2_Witness ==
  \E c \in DOMAIN calls :
    /\ Fetched(c)
    /\ calls[c].pc = "raised"
    /\ ~Has(ReplyOf(c), UpsStatus)
    /\ Has(ReplyOf(c), DeviceSerial)
    /\ Has(ReplyOf(c), UpsBeeperStatus)
    /\ Has(ReplyOf(c), BatteryChargerStatus)
    /\ Has(ReplyOf(c), UpsLoad)

\* the snapshot keys of call c that the catalog knows
CatalogKeysOf(c) == Keys(ReplyOf(c)) \cap DOMAIN METRICS

\* the metric name the specification gives catalog key k: "nut_", the key with its
\* dots turned into underscores, and "_" + unit when the entry has a unit
DerivedName(k) ==
  Word.nut \o <<"_">> \o [i \in 1..Len(k) |-> IF k[i] = "." THEN "_" ELSE k[i]]
    \o (IF METRICS[k].unit = None THEN <<>> ELSE <<"_">> \o METRICS[k].unit)

\* the name the same rule gives a key the catalog lacks (no unit to append)
UnitlessName(k) ==
  Word.nut \o <<"_">> \o [i \in 1..Len(k) |-> IF k[i] = "." THEN "_" ELSE k[i]]

\* the records of a successful call c that are not among the four dedicated ones are
\* exactly one per catalog key of its snapshot, with the derived name, the catalog's
\* help and one unlabelled sample carrying the snapshot's value
CatalogRecordsExact(c) ==
  LET out == calls[c].out
  IN /\ \A k \in CatalogKeysOf(c) :
          /\ Cardinality(Named(out, DerivedName(k))) = 1
          /\ \A i \in Named(out, DerivedName(k)) :
               /\ out[i].documentation = METRICS[k].help
               /\ out[i].samples = <<Sample(DerivedName(k), <<>>, Get(ReplyOf(c), k))>>
     /\ \A i \in 1..Len(out) :
          out[i].name \notin DedicatedNames =>
            \E k \in CatalogKeysOf(c) : out[i].name = DerivedName(k)
     /\ Cardinality({i \in 1..Len(out) : out[i].name \notin DedicatedNames})
          = Cardinality(CatalogKeysOf(c))

\* C3 as amended: on success the catalog-driven records are exactly one per catalog
\* key of the snapshot (derived name, catalog help, snapshot value); a key the catalog
\* lacks produces no such record, every other record being one of the four dedicated
\* ones (whose names nut_ups_status, nut_ups_beeper_status, nut_battery_charger_status
\* do carry keys the catalog lacks).
C3_CatalogRecords ==
  \A c \in DOMAIN calls : Succeeded(c) => CatalogRecordsExact(c)

C3_Witness ==
  \E c \in DOMAIN calls :
    /\ Succeeded(c)
    /\ {UpsLoad, Word.battery \o Dot \o Word.packs, FooBar} \subseteq Keys(ReplyOf(c))

\* C3 as stated: as above, and no key of the snapshot that the catalog lacks appears,
\* dots turned into underscores behind the prefix, as the name of an emitted record.
C3_NoUncataloguedKeyInAnyName ==
  \A c \in DOMAIN calls :
    Succeeded(c) =>
      /\ CatalogRecordsExact(c)
      /\ \A k \in Keys(ReplyOf(c)) \ DOMAIN METRICS :
           Named(calls[c].out, UnitlessName(k)) = {}

\* the one record a status key gives: value 1, label status = the snapshot's value
StatusRecordOnlyIfKey(c, key, name) ==
  LET out == calls[c].out
  IN IF Has(ReplyOf(c), key)
     THEN /\ Cardinality(Named(out, name)) = 1
          /\ \A i \in Named(out, name) :
               out[i].samples =
                 <<Sample(name, <<<<"status", Get(ReplyOf(c), key)>>>>, PyInt(1))>>
     ELSE Named(out, name) = {}

\* C4: on success nut_ups_beeper_status is emitted (value 1, label status = the
\* snapshot's value) iff the snapshot has ups.beeper.status, and
\* nut_battery_charger_status iff it has battery.charger.status, each whatever the other.
C4_OptionalStatusRecords ==
  \A c \in DOMAIN calls :
    Succeeded(c) =>
      /\ StatusRecordOnlyIfKey(c, UpsBeeperStatus, NutUpsBeeperStatus)
      /\ StatusRecordOnlyIfKey(c, BatteryChargerStatus, NutBatteryChargerStatus)

C4_Witness ==
  \E c \in DOMAIN calls :
    /\ Succeeded(c)
    /\ ~Has(ReplyOf(c), UpsBeeperStatus)
    /\ Has(ReplyOf(c), BatteryChargerStatus)
    /\ Named(calls[c].out, NutBatteryChargerStatus) # {}

\* t is s without its leading and trailing whitespace: s is t between two runs of
\* whitespace, and t neither starts nor ends with whitespace
IsStripped(t, s) ==
  /\ \E lead \in 0..Len(s) :
       /\ lead + Len(t) <= Len(s)
       /\ t = SubSeq(s, lead + 1, lead + Len(t))
       /\ \A i \in 1..lead : s[i] \in Whitespace
       /\ \A i \in (lead + Len(t) + 1)..Len(s) : s[i] \in Whitespace
  /\ t # <<>> => t[1] \notin Whitespace /\ t[Len(t)] \notin Whitespace

\* C5: on success there is exactly one nut_device_info record; it has exactly one
\* sample, of value 1, labelled manufacturer and model with the snapshot's values as
\* they are and serial with the snapshot's value stripped of surrounding whitespace.
C5_DeviceInfoRecord ==
  \A c \in DOMAIN calls :
    Succeeded(c) =>
      LET out == calls[c].out
      IN /\ Cardinality(Named(out, NutDeviceInfo)) = 1
         /\ \A i \in Named(out, NutDeviceInfo) :
              /\ Len(out[i].samples) = 1
              /\ out[i].samples[1].value = PyInt(1)
              /\ Len(out[i].samples[1].labels) = 3
              /\ out[i].samples[1].labels[1] = <<"manufacturer", Get(ReplyOf(c), DeviceMfr)>>
              /\ out[i].samples[1].labels[2] = <<"model", Get(ReplyOf(c), DeviceModel)>>
              /\ out[i].samples[1].labels[3][1] = "serial"
              /\ IsStripped(out[i].samples[1].labels[3][2], Get(ReplyOf(c), DeviceSerial))

C5_Witness ==
  \E c \in DOMAIN calls :
    /\ Succeeded(c)
    /\ Get(ReplyOf(c), DeviceSerial)[1] \in Whitespace
    /\ Get(ReplyOf(c), DeviceSerial)[Len(Get(ReplyOf(c), DeviceSerial))] \in Whitespace

\* what float() takes among the values tried: an optional sign and decimal digits with
\* at most one point, whitespace around it
IsNumeric(s) ==
  LET t == Strip(s)
      body == IF t # <<>> /\ Head(t) \in {"+", "-"} THEN Tail(t) ELSE t
  IN /\ \E i \in 1..Len(body) : IsDigit(body[i])
     /\ \A i \in 1..Len(body) : IsDigit(body[i]) \/ body[i] = "."
     /\ Cardinality({i \in 1..Len(body) : body[i] = "."}) <= 1

\* C6: a call never succeeds having emitted, for a catalog key whose snapshot value is
\* no number, a record that carries that value.
C6_NonNumericValueNeverEmitted ==
  \A c \in DOMAIN calls :
    Succeeded(c) =>
      \A k \in CatalogKeysOf(c) :
        ~IsNumeric(Get(ReplyOf(c), k)) =>
          \A i \in Named(calls[c].out, FormattedName(k)) :
            \A j \in 1..Len(calls[c].out[i].samples) :
              calls[c].out[i].samples[j].value # Get(ReplyOf(c), k)

\* C7: every call makes exactly one fetch of its own, with the collector's fixed host
\* and UPS name, works on the snapshot that fetch returned, and what it has yielded or
\* raised at any point is determined by that fetch alone: two calls with the same fetch
\* outcome at the same point have yielded the same records, whatever the other calls
\* alive at the time fetched, yielded or raised.
C7_CallsAreIndependent ==
  /\ \A c \in DOMAIN calls :
       /\ Len(calls[c].fetches) = IF calls[c].pc \in {"idle", "start"} THEN 0 ELSE 1
       /\ \A n \in 1..Len(calls[c].fetches) :
            /\ calls[c].fetches[n].host = registry[1]._host
            /\ calls[c].fetches[n].ups_name = registry[1]._ups_name
       /\ Fetched(c) => calls[c].client_vars = ReplyOf(c)
  /\ \A c, d \in DOMAIN calls :
       (/\ calls[c].fetches = calls[d].fetches
        /\ calls[c].pc = calls[d].pc
        /\ calls[c].i = calls[d].i) =>
         /\ calls[c].out = calls[d].out
         /\ calls[c].exc = calls[d].exc

C7_Witness ==
  \E c, d \in DOMAIN calls :
    /\ c # d
    /\ calls[c].pc = "status"
    /\ Fetched(d)
    /\ calls[d].pc = "raised"
    /\ ReplyOf(c) # ReplyOf(d)

\* the daemon port the environment configures
ConfiguredNutPort ==
  IF "NUT_PORT" \in DOMAIN environ THEN PyIntOf(environ["NUT_PORT"])[2] ELSE DefaultNutPort

\* C8: every fetch contacts the host of HOST on the port of NUT_PORT, 3493 when it
\* is not set.
C8_FetchUsesConfiguredPort ==
  \A c \in DOMAIN calls :
    \A n \in 1..Len(calls[c].fetches) :
      /\ calls[c].fetches[n].host = environ["HOST"]
      /\ calls[c].fetches[n].port = ConfiguredNutPort

Lowercase ==
  {"a", "b", "c", "d", "e", "f", "g", "h", "i", "j", "k", "l", "m",
   "n", "o", "p", "q", "r", "s", "t", "u", "v", "w", "x", "y", "z"}

OnlyOf(s, chars) == \A i \in 1..Len(s) : s[i] \in chars

\* no key is written twice in the display of the catalog
CatalogKeysUnique ==
  \A i, j \in 1..Len(METRICS_LITERAL) :
    i # j => METRICS_LITERAL[i].key # METRICS_LITERAL[j].key

\* C9: the catalog's keys are unique, and every catalog record emitted comes from an
\* entry whose unit is absent or all lowercase letters and has a name made only of
\* lowercase letters and underscores.
C9_CatalogNamesAreLowercase ==
  /\ CatalogKeysUnique
  /\ \A c \in DOMAIN calls :
       \A i \in 1..Len(calls[c].out) :
         calls[c].out[i].name \notin DedicatedNames =>
           /\ OnlyOf(calls[c].out[i].name, Lowercase \cup {"_"})
           /\ \A k \in CatalogKeysOf(c) :
                calls[c].out[i].name = FormattedName(k) =>
                  METRICS[k].unit = None \/ OnlyOf(METRICS[k].unit, Lowercase)

\* the name transform gives different catalog keys different names, none of them the
\* name of a dedicated record
CatalogNamesInjective ==
  /\ \A k1, k2 \in DOMAIN METRICS : k1 # k2 => FormattedName(k1) # FormattedName(k2)
  /\ \A k \in DOMAIN METRICS : FormattedName(k) \notin DedicatedNames

\* C10: the name transform is injective over the catalog and avoids the four dedicated
\* names, and the records of a successful call have pairwise different names.
C10_NamesAreDistinct ==
  /\ CatalogNamesInjective
  /\ \A c \in DOMAIN calls :
       Succeeded(c) =>
         \A i, j \in 1..Len(calls[c].out) :
           i # j => calls[c].out[i].name # calls[c].out[j].name

C10_Witness ==
  \E c \in DOMAIN calls :
    /\ Succeeded(c)
    /\ Cardinality(CatalogKeysOf(c)) = 2
    /\ Len(calls[c].out) = 6

====
